---- MODULE Spec2Model ----
(***************************************************************************)
(* Model of xsar's coordinate mapper (RadarSat2Meta: geolocation grid,     *)
(* approximate affine transform, exact bilinear spline interpolator,       *)
(* coords2ll / ll2coords / coords2heading) and of the calibration steps of *)
(* SentinelDataset (_apply_calibration_lut, reverse_calibration_lut) and   *)
(* of the pipeline SentinelDataset.__init__ runs when a dataset is opened,  *)
(* the mask feature tables of RadarSat2Meta (set_mask_feature, dict,       *)
(* from_dict) and the setter of SentinelDataset.dataset.                   *)
(*                                                                         *)
(* Real numbers are exact rationals <<numerator, denominator>>.  Sequence  *)
(* inputs of coords2ll are 1-D numpy arrays; a geometry is the tuple of    *)
(* its vertices, as shapely.ops.transform hands them to the callback.      *)
(***************************************************************************)
EXTENDS Integers, Sequences, FiniteSets, TLC

VARIABLES
    geoloc,            \* RadarSat2Meta.geoloc: line, pixel, longitude, latitude
    approx_transform,  \* manifest_attrs['approx_transform'] (a, b, c, d, e, f)
    constructed,       \* snapshot taken when __init__ returned (history)
    ret,               \* what the call in progress returned to its caller
    dataset,           \* SentinelDataset._dataset (digital_number per pixel)
    luts,              \* SentinelDataset._luts (per pixel)
    pc,                \* position of SentinelDataset.__init__ (or READY, raised)
    s1meta,            \* SentinelDataset.s1meta (denoised flag per polarization)
    args,              \* arguments SentinelDataset.__init__ was called with
    heap,              \* the dict objects of the mask tables, by address
    instances,         \* RadarSat2Meta instances: name and addresses of their dicts
    sliced             \* SentinelDataset.sliced

vars == <<geoloc, approx_transform, constructed, ret, dataset, luts, pc, s1meta, args,
          heap, instances, sliced>>
metaVars == <<geoloc, approx_transform, constructed>>
dsVars == <<dataset, luts>>
openVars == <<pc, s1meta, args>>
maskVars == <<heap, instances>>

(***************************************************************************)
(* Exact arithmetic                                                        *)
(***************************************************************************)
Abs(x) == IF x < 0 THEN -x ELSE x

RECURSIVE GCD(_, _)
GCD(a, b) == IF b = 0 THEN a ELSE GCD(b, a % b)

Rat(n, d) ==
    LET s == IF d < 0 THEN -1 ELSE 1
        g == GCD(Abs(n), Abs(d))
    IN  <<(s * n) \div g, (s * d) \div g>>

FromInt(n) == <<n, 1>>
\* sums over the least common denominator, products reduced crosswise
RAdd(p, q) ==
    LET g == GCD(p[2], q[2])
    IN  Rat(p[1] * (q[2] \div g) + q[1] * (p[2] \div g), (p[2] \div g) * q[2])
RNeg(p) == <<-p[1], p[2]>>
RSub(p, q) == RAdd(p, RNeg(q))
RMul(p, q) ==
    LET g1 == GCD(Abs(p[1]), q[2])
        g2 == GCD(Abs(q[1]), p[2])
    IN  Rat((p[1] \div g1) * (q[1] \div g2), (p[2] \div g2) * (q[2] \div g1))
RInv(p) == Rat(p[2], p[1])
RDiv(p, q) == RMul(p, RInv(q))
RLt(p, q) == RSub(p, q)[1] < 0
RLe(p, q) == RSub(p, q)[1] <= 0
RAbs(p) == <<Abs(p[1]), p[2]>>
RFloor(p) == p[1] \div p[2]
\* python's float % with a positive modulus: the result lies in [0, m)
RMod(p, m) == RSub(p, FromInt(m * RFloor(RDiv(p, FromInt(m)))))
RClamp(p, lo, hi) == IF RLt(p, lo) THEN lo ELSE IF RLt(hi, p) THEN hi ELSE p

RECURSIVE SumSeq(_)
SumSeq(s) == IF s = <<>> THEN 0 ELSE Head(s) + SumSeq(Tail(s))

RECURSIVE RSumSeq(_)
RSumSeq(s) == IF s = <<>> THEN FromInt(0) ELSE RAdd(Head(s), RSumSeq(Tail(s)))

RECURSIVE Flatten(_)
Flatten(m) == IF m = <<>> THEN <<>> ELSE Head(m) \o Flatten(Tail(m))

(***************************************************************************)
(* Degrees                                                                 *)
(***************************************************************************)
FullTurn == 360
HalfTurn == 180


\* longitude of a product, stored in [-180, 180)
Wrap180(x) == ((x + HalfTurn) % FullTurn) - HalfTurn

(***************************************************************************)
(* Bounds of the model                                                     *)
(***************************************************************************)
NumLines == 2       \* ground-control grid: number of lines
NumPixels == 2      \* ground-control grid: number of pixels per line
LineSpacing == 2    \* image lines between two grid lines
PixelSpacing == 2   \* image samples between two grid pixels
MaxCoord == 2       \* largest line / sample given to a transform
MaxLen == 3         \* longest 1-D input array

GridLine == [i \in 1..NumLines |-> (i - 1) * LineSpacing]
GridPixel == [j \in 1..NumPixels |-> (j - 1) * PixelSpacing]

\* the ground-control grids a product may carry: away from the antimeridian
\* (lon0 = 10), affine or bent and skewed; across the antimeridian
\* (lon0 = 178, 179), with longitude along the pixels and latitude along the
\* lines
GridParams ==
    [lon0 : {10}, dl : {0, 1}, dp : {2}, bend : {0, 1},
     lat0 : {40}, el : {-2}, ep : {0, 1}]
    \cup
    [lon0 : {178, 179}, dl : {0}, dp : {2}, bend : {0},
     lat0 : {40}, el : {-2}, ep : {0}]

GridOf(p) ==
    [line |-> GridLine,
     pixel |-> GridPixel,
     longitude |-> [i \in 1..NumLines |-> [j \in 1..NumPixels |->
        Wrap180(p.lon0 + p.dl * (i - 1) + p.dp * (j - 1)
                + p.bend * (i - 1) * (j - 1))]],
     latitude |-> [i \in 1..NumLines |-> [j \in 1..NumPixels |->
        p.lat0 + p.el * (i - 1) + p.ep * (j - 1)]]]

(***************************************************************************)
(* RadarSat2Meta                                                           *)
(***************************************************************************)
SeqMax(s) == CHOOSE x \in {s[k] : k \in DOMAIN s} :
                \A y \in {s[k] : k \in DOMAIN s} : y <= x
SeqMin(s) == CHOOSE x \in {s[k] : k \in DOMAIN s} :
                \A y \in {s[k] : k \in DOMAIN s} : x <= y

\* half a turn taken as crossing
cross_antemeridianInclusive(g) ==
    SeqMax(Flatten(g.longitude)) - SeqMin(Flatten(g.longitude)) >= HalfTurn

\* RadarSat2Meta.cross_antemeridian: recomputed from self.geoloc at each access
cross_antemeridian(g) ==
    SeqMax(Flatten(g.longitude)) - SeqMin(Flatten(g.longitude)) > HalfTurn

\* rasterio.transform.from_gcps over every grid point (col = line,
\* row = pixel, x = longitude, y = latitude): the least-squares affine map
\*   x = a * line + b * pixel + c.  On a rectangular grid the normal
\* equations decouple: a slope is the covariance of the values with the
\* centred coordinate over the variance of that coordinate.
Mean(s) == Rat(SumSeq(s), Len(s))
Centered(c) == [k \in DOMAIN c |-> RSub(FromInt(c[k]), Mean(c))]
Dot(u, w) == RSumSeq([k \in DOMAIN u |-> RMul(u[k], w[k])])
RowSums(v) == [i \in DOMAIN v |-> FromInt(SumSeq(v[i]))]
ColSums(v) == [j \in DOMAIN v[1] |-> FromInt(SumSeq([i \in DOMAIN v |-> v[i][j]]))]
Slope(c, sums, count) ==
    RDiv(Dot(Centered(c), sums), RMul(FromInt(count), Dot(Centered(c), Centered(c))))
Intercept(g, v, a, b) ==
    RSub(Mean(Flatten(v)), RAdd(RMul(a, Mean(g.line)), RMul(b, Mean(g.pixel))))
LeastSquaresOn(g, v, a, b) == <<a, b, Intercept(g, v, a, b)>>
LeastSquares(g, v) ==
    LeastSquaresOn(g, v, Slope(g.line, RowSums(v), Len(g.pixel)),
                         Slope(g.pixel, ColSums(v), Len(g.line)))

AffineOf(x, y) ==
    [a |-> x[1], b |-> x[2], c |-> x[3], d |-> y[1], e |-> y[2], f |-> y[3]]

\* manifest_attrs['approx_transform']
from_gcps(g) == AffineOf(LeastSquares(g, g.longitude), LeastSquares(g, g.latitude))

\* Affine.__mul__: (line, sample) -> (lon, lat)
AffineApply(t, line, sample) ==
    <<RAdd(RAdd(RMul(t.a, line), RMul(t.b, sample)), t.c),
      RAdd(RAdd(RMul(t.d, line), RMul(t.e, sample)), t.f)>>

AffineDet(t) == RSub(RMul(t.a, t.e), RMul(t.b, t.d))
Invertible(t) == AffineDet(t) # FromInt(0)

InverseOn(t, x, y, det) ==
    <<RDiv(RSub(RMul(t.e, x), RMul(t.b, y)), det),
      RDiv(RSub(RMul(t.a, y), RMul(t.d, x)), det)>>

\* (~Affine) * (lon, lat) -> (line, sample)
AffineInverseApply(t, lon, lat) ==
    InverseOn(t, RSub(lon, t.c), RSub(lat, t.f), AffineDet(t))

\* RectBivariateSpline(idx_line, idx_sample, values, kx=1, ky=1): the
\* bilinear interpolant of the grid; arguments outside the grid are
\* evaluated at the nearest border (FITPACK clamps them).
Cell(knots, x) ==
    CHOOSE k \in 1..(Len(knots) - 1) :
        /\ RLe(FromInt(knots[k]), x)
        /\ \/ RLt(x, FromInt(knots[k + 1]))
           \/ k = Len(knots) - 1

Frac(knots, k, x) ==
    RDiv(RSub(x, FromInt(knots[k])), FromInt(knots[k + 1] - knots[k]))

Lerp(p, q, w) == RAdd(RMul(RSub(FromInt(1), w), p), RMul(w, q))

BilinearIn(g, v, x, y, i, j) ==
    Lerp(Lerp(FromInt(v[i][j]), FromInt(v[i][j + 1]), Frac(g.pixel, j, y)),
         Lerp(FromInt(v[i + 1][j]), FromInt(v[i + 1][j + 1]), Frac(g.pixel, j, y)),
         Frac(g.line, i, x))

Bilinear(g, v, x, y) == BilinearIn(g, v, x, y, Cell(g.line, x), Cell(g.pixel, y))

SplineEv(g, v, line, sample) ==
    Bilinear(g, v,
             RClamp(line, FromInt(g.line[1]), FromInt(g.line[Len(g.line)])),
             RClamp(sample, FromInt(g.pixel[1]), FromInt(g.pixel[Len(g.pixel)])))

\* RadarSat2Meta._dict_coords2ll: `geoloc = self.geoloc` binds the same
\* Dataset, so the assignment of longitude % 360 is made in self.geoloc.
\* Returns the grid as left in self.geoloc; the two splines are built on it
\* anew at every access.
dict_coords2ll(g) ==
    IF cross_antemeridian(g)
    THEN [g EXCEPT !.longitude =
            [i \in DOMAIN g.longitude |->
                [j \in DOMAIN g.longitude[i] |-> g.longitude[i][j] % FullTurn]]]
    ELSE g

\* utils.to_lon180: longitudes brought back into [-180, 180)
to_lon180(lon) == RSub(RMod(RAdd(lon, FromInt(HalfTurn)), FullTurn), FromInt(HalfTurn))

None == <<>>

Out(g, status, r1, r2, n) ==
    [geoloc |-> g, status |-> status, res1 |-> r1, res2 |-> r2, nExact |-> n]

Failed(g, n) == Out(g, "error", None, None, n)

\* a pair, a 1-D array and a 2-D array of (lon, lat) as the returned tuple
OutPoint(g, p, n) == Out(g, "ok", p[1], p[2], n)
OutArray(g, ps, n) ==
    Out(g, "ok", [k \in DOMAIN ps |-> ps[k][1]], [k \in DOMAIN ps |-> ps[k][2]], n)
OutGrid(g, ps, n) ==
    Out(g, "ok", [i \in DOMAIN ps |-> [j \in DOMAIN ps[i] |-> ps[i][j][1]]],
                 [i \in DOMAIN ps |-> [j \in DOMAIN ps[i] |-> ps[i][j][2]]], n)

\* coords2ll, lines 366-367: the flag is read from self.geoloc as it is now
NormLon(g, ll) == IF cross_antemeridian(g) THEN <<to_lon180(ll[1]), ll[2]>> ELSE ll

\* a check of equal lengths in place of broadcasting
SameLength(n, m) == n = m

\* numpy broadcasting of two 1-D arrays
BroadcastOk(n, m) == n = m \/ n = 1 \/ m = 1
BroadcastLen(n, m) == IF n = 1 THEN m ELSE n
BroadcastAt(a, k) == IF Len(a) = 1 THEN a[1] ELSE a[k]

\* RectBivariateSpline.__call__(x, y, grid=True) wants sorted arrays
Sorted(a) == \A k \in 1..(Len(a) - 1) : RLe(a[k], a[k + 1])

\* coords2ll, lines 350-364 at one position: the affine map, or the two
\* splines of dict_coords2ll
TransformAt(g, t, line, sample, approx) ==
    IF approx
    THEN AffineApply(t, line, sample)
    ELSE <<SplineEv(g, g.longitude, line, sample), SplineEv(g, g.latitude, line, sample)>>

PointLL(g, t, line, sample, approx) == NormLon(g, TransformAt(g, t, line, sample, approx))

\* np.meshgrid(lines, samples): the transposed grid
GridLLTransposed(g, t, lines, samples, approx) ==
    [j \in DOMAIN samples |-> [i \in DOMAIN lines |->
        PointLL(g, t, lines[i], samples[j], approx)]]

\* np.meshgrid(samples, lines) and the spline's grid=True: entry [i][j] is
\* for lines[i] and samples[j]
GridLL(g, t, lines, samples, approx) ==
    [i \in DOMAIN lines |-> [j \in DOMAIN samples |->
        PointLL(g, t, lines[i], samples[j], approx)]]

\* element-wise evaluation, after broadcasting
PairsLL(g, t, lines, samples, approx) ==
    [k \in 1..BroadcastLen(Len(lines), Len(samples)) |->
        PointLL(g, t, BroadcastAt(lines, k), BroadcastAt(samples, k), approx)]

\* coords2ll, line 358: self.geoloc after `dict_coords2ll = self._dict_coords2ll`
GridRead(g, approx) == IF approx THEN g ELSE dict_coords2ll(g)
Reads(approx) == IF approx THEN 0 ELSE 1

\* coords2ll, lines 344-377, line and sample both scalars
ScalarOn(g, t, line, sample, approx) ==
    OutPoint(g, PointLL(g, t, line, sample, approx), Reads(approx))

coords2ll_scalar(g, t, line, sample, approx) ==
    ScalarOn(GridRead(g, approx), t, line, sample, approx)

\* coords2ll, lines 344-377, lines and samples both 1-D arrays
ArraysOn(g, t, lines, samples, to_grid, approx) ==
    IF to_grid
    THEN IF ~approx /\ ~(Sorted(lines) /\ Sorted(samples))
         THEN Failed(g, Reads(approx))
         ELSE OutGrid(g, GridLL(g, t, lines, samples, approx), Reads(approx))
    ELSE IF ~BroadcastOk(Len(lines), Len(samples))
         THEN Failed(g, Reads(approx))
         ELSE OutArray(g, PairsLL(g, t, lines, samples, approx), Reads(approx))

coords2ll_arrays(g, t, lines, samples, to_grid, approx) ==
    ArraysOn(GridRead(g, approx), t, lines, samples, to_grid, approx)

\* _coords2ll_shapely(shape, approx): shapely.ops.transform calls
\* self.coords2ll(xs, ys) on the vertices; the approx branch is an affine
\* map of the vertices
coords2ll_shapely(g, t, xs, ys, approx) ==
    IF approx
    THEN OutArray(g, [k \in DOMAIN xs |-> AffineApply(t, xs[k], ys[k])], 0)
    ELSE coords2ll_arrays(g, t, xs, ys, FALSE, FALSE)

\* coords2ll, lines 341-342: a geometry goes to _coords2ll_shapely(args[0]),
\* whose approx parameter is left at its default
coords2ll_geometry(g, t, xs, ys, to_grid, approx) ==
    coords2ll_shapely(g, t, xs, ys, FALSE)

\* RadarSat2Meta.coords2ll
coords2ll(g, t, kind, a1, a2, to_grid, approx) ==
    CASE kind = "geometry" -> coords2ll_geometry(g, t, a1, a2, to_grid, approx)
      [] kind = "scalar" -> coords2ll_scalar(g, t, a1, a2, approx)
      [] kind = "array" -> coords2ll_arrays(g, t, a1, a2, to_grid, approx)

\* the error added instead of subtracted
CorrectSignSlip(approx, identity) == RAdd(approx, RSub(identity, approx))

\* ll2coords, lines 420-425: the correction by the measured error
Correct(approx, identity) == RSub(approx, RSub(identity, approx))

ll2coordsOut(c, approx, identity) ==
    Out(c.geoloc, "ok", Correct(approx[1], identity[1]),
        Correct(approx[2], identity[2]), c.nExact)

\* ll2coords, line 418: (line_identity, sample_identity)
ll2coordsIdentity(t, approx, c) ==
    ll2coordsOut(c, approx, AffineInverseApply(t, c.res1, c.res2))

\* ll2coords, line 417: (lon_identity, lat_identity)
ll2coordsFrom(g, t, approx) ==
    ll2coordsIdentity(t, approx,
                      coords2ll(g, t, "scalar", approx[1], approx[2], FALSE, FALSE))

\* RadarSat2Meta.ll2coords on scalars lon, lat; a singular approx_transform
\* has no inverse (affine raises)
ll2coords(g, t, lon, lat) ==
    IF ~Invertible(t)
    THEN Failed(g, 0)
    ELSE ll2coordsFrom(g, t, AffineInverseApply(t, lon, lat))

\* RadarSat2Meta.coords2heading on scalars; utils.haversine turns the two
\* positions into a bearing, kept here as the pair of positions
HeadingOut(c1, c2) ==
    Out(c2.geoloc, "ok", <<c1.res1, c1.res2>>, <<c2.res1, c2.res2>>,
        c1.nExact + c2.nExact)

HeadingFrom(c1, t, line, sample, to_grid, approx) ==
    HeadingOut(c1, coords2ll(c1.geoloc, t, "scalar", RAdd(line, FromInt(1)),
                             sample, to_grid, approx))

coords2heading(g, t, line, sample, to_grid, approx) ==
    HeadingFrom(coords2ll(g, t, "scalar", RSub(line, FromInt(1)), sample, to_grid, approx),
                t, line, sample, to_grid, approx)

(***************************************************************************)
(* Calls on a RadarSat2Meta instance.  One call at a time: a call leaves   *)
(* its result in ret, and the caller takes it before the next call.        *)
(***************************************************************************)
NoRet ==
    [op |-> "none", kind |-> "", to_grid |-> FALSE, approx |-> FALSE,
     arg1 |-> None, arg2 |-> None, status |-> "", res1 |-> None, res2 |-> None,
     nExact |-> 0]

Ret(op, kind, to_grid, approx, a1, a2, out) ==
    [op |-> op, kind |-> kind, to_grid |-> to_grid, approx |-> approx,
     arg1 |-> a1, arg2 |-> a2, status |-> out.status,
     res1 |-> out.res1, res2 |-> out.res2, nExact |-> out.nExact]

\* a method of the metadata object ran: what it left in self.geoloc, and
\* what it returned
MetaCall(op, kind, to_grid, approx, a1, a2, out) ==
    /\ geoloc' = out.geoloc
    /\ ret' = Ret(op, kind, to_grid, approx, a1, a2, out)
    /\ UNCHANGED <<approx_transform, constructed, dataset, luts, openVars, maskVars, sliced>>

InCoords == 0..MaxCoord

\* 1-D input arrays: consecutive coordinates, ascending or descending
Arrays ==
    {a \in UNION {[1..len -> InCoords] : len \in 1..MaxLen} :
        \/ \A k \in 1..(Len(a) - 1) : a[k + 1] = a[k] + 1
        \/ \A k \in 1..(Len(a) - 1) : a[k + 1] = a[k] - 1}

ToRat(a) == [k \in DOMAIN a |-> FromInt(a[k])]

\* (lon, lat) asked of ll2coords
LonInputs == {11, 179, -179}
LatInputs == {40, 39}

Idle == ret.op = "none"

Coords2llScalar ==
    /\ Idle
    /\ \E line \in InCoords, sample \in InCoords, to_grid \in BOOLEAN, approx \in BOOLEAN :
        MetaCall("coords2ll", "scalar", to_grid, approx, line, sample,
                 coords2ll(geoloc, approx_transform, "scalar",
                           FromInt(line), FromInt(sample), to_grid, approx))

Coords2llArrays ==
    /\ Idle
    /\ \E lines \in Arrays, samples \in Arrays, to_grid \in BOOLEAN, approx \in BOOLEAN :
        MetaCall("coords2ll", "array", to_grid, approx, lines, samples,
                 coords2ll(geoloc, approx_transform, "array",
                           ToRat(lines), ToRat(samples), to_grid, approx))

Coords2llGeometry ==
    /\ Idle
    /\ \E xs \in Arrays, ys \in Arrays, approx \in BOOLEAN :
        /\ Len(xs) = Len(ys)
        /\ MetaCall("coords2ll", "geometry", FALSE, approx, xs, ys,
                    coords2ll(geoloc, approx_transform, "geometry",
                              ToRat(xs), ToRat(ys), FALSE, approx))

Ll2coords ==
    /\ Idle
    /\ \E lon \in LonInputs, lat \in LatInputs :
        MetaCall("ll2coords", "scalar", FALSE, FALSE, FromInt(lon), FromInt(lat),
                 ll2coords(geoloc, approx_transform, FromInt(lon), FromInt(lat)))

\* the caller feeds the position coords2ll(line, sample) returned to ll2coords
Ll2coordsOfCoords2ll ==
    /\ ret.op = "coords2ll" /\ ret.kind = "scalar" /\ ~ret.approx
    /\ ret.status = "ok"
    /\ MetaCall("ll2coords", "roundtrip", FALSE, FALSE, ret.arg1, ret.arg2,
                ll2coords(geoloc, approx_transform, ret.res1, ret.res2))

Coords2heading ==
    /\ Idle
    /\ \E line \in InCoords, sample \in InCoords, approx \in BOOLEAN :
        MetaCall("coords2heading", "scalar", FALSE, approx, line, sample,
                 coords2heading(geoloc, approx_transform,
                                FromInt(line), FromInt(sample), FALSE, approx))

\* reading the property meta._dict_coords2ll
GetDictCoords2ll ==
    /\ Idle
    /\ MetaCall("_dict_coords2ll", "property", FALSE, FALSE, None, None,
                Out(dict_coords2ll(geoloc), "ok", None, None, 1))

\* reading the property meta.cross_antemeridian
GetCrossAntemeridian ==
    /\ Idle
    /\ MetaCall("cross_antemeridian", "property", FALSE, FALSE, None, None,
                Out(geoloc, "ok", <<cross_antemeridian(geoloc)>>, None, 0))

\* the caller takes the returned value (or catches the exception)
Return ==
    /\ ~Idle
    /\ ret' = NoRet
    /\ UNCHANGED <<metaVars, dsVars, openVars, maskVars, sliced>>

NoDataset == <<>>

\* RadarSat2Meta.__init__ on a product carrying one of the grids
Init ==
    /\ \E p \in GridParams : geoloc = GridOf(p)
    /\ approx_transform = from_gcps(geoloc)
    /\ constructed = [geoloc |-> geoloc, cross_antemeridian |-> cross_antemeridian(geoloc)]
    /\ ret = NoRet
    /\ dataset = NoDataset
    /\ luts = NoDataset
    /\ pc = NoDataset
    /\ s1meta = NoDataset
    /\ args = NoDataset
    /\ heap = NoDataset
    /\ instances = NoDataset
    /\ sliced = FALSE

Next ==
    \/ Coords2llScalar
    \/ Coords2llArrays
    \/ Coords2llGeometry
    \/ Ll2coords
    \/ Ll2coordsOfCoords2ll
    \/ Coords2heading
    \/ GetDictCoords2ll
    \/ GetCrossAntemeridian
    \/ Return

Spec == Init /\ [][Next]_vars

(***************************************************************************)
(* Properties of the coordinate mapper                                     *)
(***************************************************************************)
\* the longitudes a coords2ll call returned, as one sequence
LonsOf(r) ==
    IF r.kind = "scalar" THEN <<r.res1>>
    ELSE IF r.kind = "array" /\ r.to_grid THEN Flatten(r.res1)
    ELSE r.res1

InLon180(lon) == RLe(FromInt(-HalfTurn), lon) /\ RLt(lon, FromInt(HalfTurn))

Coords2llReturned == ret.op = "coords2ll" /\ ret.status = "ok"

C2_FlagAsConstructed ==
    cross_antemeridian(geoloc) = constructed.cross_antemeridian

\* C3: the geolocation grid holds the values it held after construction
C3_GridImmutable == geoloc = constructed.geoloc

Half == Rat(1, 2)
Within(p, q, tol) == RLt(RAbs(RSub(p, q)), tol)

\* C4: ll2coords(coords2ll(line, sample)) is within half a pixel of
\* (line, sample) on each axis
C4_RoundTrip ==
    (ret.op = "ll2coords" /\ ret.kind = "roundtrip" /\ ret.status = "ok")
        => /\ Within(ret.res1, FromInt(ret.arg1), Half)
           /\ Within(ret.res2, FromInt(ret.arg2), Half)

\* C8: a coords2ll call with approx=True does not touch the exact interpolator
C8_ApproxNeverExact ==
    (ret.op = "coords2ll" /\ ret.approx) => ret.nExact = 0

Ll2coordsReturned == ret.op = "ll2coords" /\ ret.kind = "scalar" /\ ret.status = "ok"

\* (line0, sample0): the inverse affine map of the (lon, lat) asked
C5_Approx == AffineInverseApply(approx_transform, ret.arg1, ret.arg2)

\* (lon1, lat1): the exact forward transform at (line0, sample0)
C5_Forward(p0) == coords2ll_scalar(geoloc, approx_transform, p0[1], p0[2], FALSE)

\* (line1, sample1): the inverse affine map of (lon1, lat1)
C5_Identity(c) == AffineInverseApply(approx_transform, c.res1, c.res2)

C5_Pass(p0, p1) ==
    <<RSub(p0[1], RSub(p1[1], p0[1])), RSub(p0[2], RSub(p1[2], p0[2]))>>

\* C5: ll2coords returns (line0 - (line1 - line0), sample0 - (sample1 -
\* sample0)) and evaluates the exact forward transform once
C5_OneCorrectionPass ==
    Ll2coordsReturned
        => /\ ret.nExact = 1
           /\ <<ret.res1, ret.res2>> = C5_Pass(C5_Approx, C5_Identity(C5_Forward(C5_Approx)))

\* an ll2coords call whose correction moved the approximate position
C5_Witness ==
    /\ Ll2coordsReturned
    /\ <<ret.res1, ret.res2>> # C5_Approx

\* the transform of one position, by the scalar call in the same mode
ScalarLL(c) == <<c.res1, c.res2>>
TransformOf(line, sample, approx) ==
    ScalarLL(coords2ll_scalar(geoloc, approx_transform, FromInt(line), FromInt(sample), approx))

Ascending(a) == \A k \in 1..(Len(a) - 1) : a[k] <= a[k + 1]

GridCall == ret.op = "coords2ll" /\ ret.kind = "array" /\ ret.to_grid

\* the result has shape (len(lines), len(samples)) and entry [i][j] is the
\* transform of (lines[i], samples[j])
GridResult ==
    /\ ret.status = "ok"
    /\ Len(ret.res1) = Len(ret.arg1) /\ Len(ret.res2) = Len(ret.arg1)
    /\ \A i \in DOMAIN ret.arg1 :
        /\ Len(ret.res1[i]) = Len(ret.arg2) /\ Len(ret.res2[i]) = Len(ret.arg2)
        /\ \A j \in DOMAIN ret.arg2 :
            <<ret.res1[i][j], ret.res2[i][j]>> = TransformOf(ret.arg1[i], ret.arg2[j], ret.approx)

PairCall == ret.op = "coords2ll" /\ ret.kind = "array" /\ ~ret.to_grid

PickAt(a, k) == IF Len(a) = 1 THEN a[1] ELSE a[k]

\* the result has n entries, entry k being the transform of the k-th pair
PairResult(n) ==
    /\ ret.status = "ok"
    /\ Len(ret.res1) = n /\ Len(ret.res2) = n
    /\ \A k \in 1..n :
        <<ret.res1[k], ret.res2[k]>>
            = TransformOf(PickAt(ret.arg1, k), PickAt(ret.arg2, k), ret.approx)

\* C7 as stated: equal lengths give the element-wise result, different
\* lengths end in an error
C7_PairsOrError ==
    PairCall =>
        IF Len(ret.arg1) = Len(ret.arg2)
        THEN PairResult(Len(ret.arg1))
        ELSE ret.status = "error"

\* C7 amended: equal lengths give the element-wise result; an array of
\* length 1 is paired with every element of the other one; different
\* lengths, neither of them 1, end in an error
C7_PairsBroadcastOrError ==
    PairCall =>
        IF Len(ret.arg1) = Len(ret.arg2)
        THEN PairResult(Len(ret.arg1))
        ELSE IF Len(ret.arg1) = 1 THEN PairResult(Len(ret.arg2))
        ELSE IF Len(ret.arg2) = 1 THEN PairResult(Len(ret.arg1))
        ELSE ret.status = "error"

\* lines of length 3 against samples of length 2: the call raised
C7_Witness ==
    /\ PairCall /\ ret.status = "error"
    /\ Len(ret.arg1) = 3 /\ Len(ret.arg2) = 2

(***************************************************************************)
(* SentinelDataset: calibration of digital_number by a lookup table        *)
(***************************************************************************)
NumPix == 2     \* pixels of the image
MaxDn == 2      \* largest digital number (and largest real or imaginary part)
MaxLut == 2     \* largest first value of a calibration lookup table

Pixels == 1..NumPix

\* floating-point values: a finite number, the square root of one (np.abs
\* of a complex number, np.sqrt), not-a-number, +infinity
Num(q) == [k |-> "num", v |-> q]
Root(q) == [k |-> "sqrt", v |-> q]
NaN == [k |-> "nan", v |-> FromInt(0)]
Inf == [k |-> "inf", v |-> FromInt(0)]

IsZero(x) == x.k \in {"num", "sqrt"} /\ x.v[1] = 0
IsPositive(x) == x.k = "inf" \/ (x.k \in {"num", "sqrt"} /\ x.v[1] > 0)

\* np.abs of a digital number (re, im)
NpAbs(dn) == Root(FromInt(dn[1] * dn[1] + dn[2] * dn[2]))

\* x ** 2
Square(x) ==
    CASE x.k = "sqrt" -> Num(x.v)
      [] x.k = "num" -> Num(RMul(x.v, x.v))
      [] OTHER -> x

\* x / y for x, y >= 0, y finite: 0 / 0 is not-a-number, x / 0 is infinite
Divide(x, y) ==
    CASE x.k = "nan" -> NaN
      [] IsZero(y) -> IF IsZero(x) THEN NaN ELSE Inf
      [] x.k = "inf" -> Inf
      [] OTHER -> Num(RDiv(x.v, y.v))

\* x * y for x, y >= 0, y finite: inf * 0 is not-a-number
Times(x, y) ==
    CASE x.k = "nan" -> NaN
      [] x.k = "inf" -> IF IsZero(y) THEN NaN ELSE Inf
      [] OTHER -> Num(RMul(x.v, y.v))

\* np.sqrt
NpSqrt(x) == IF x.k = "num" THEN Root(x.v) ELSE x

\* the zeros kept
WhereKept(x, cond) == x

\* DataArray.where(cond): not-a-number where cond is false
Where(x, cond) == IF cond THEN x ELSE NaN

\* self._map_var_lut
map_var_lut == ("sigma0_raw" :> "sigma0_lut") @@ ("gamma0_raw" :> "gamma0_lut")

VarNames == {"sigma0_raw", "gamma0_raw", "beta0_raw"}

DsOut(status, r1, r2) ==
    [geoloc |-> geoloc, status |-> status, res1 |-> r1, res2 |-> r2, nExact |-> 0]

\* _apply_calibration_lut, lines 627-629, at one pixel
CalibratePixel(dn, lut) ==
    Where(Divide(Square(NpAbs(dn)), Square(Num(FromInt(lut)))),
          IsPositive(Divide(Square(NpAbs(dn)), Square(Num(FromInt(lut))))))

\* SentinelDataset._get_lut: ValueError for an unknown variable or a lookup
\* table that was not loaded
HasLut(ls, var_name) ==
    var_name \in DOMAIN map_var_lut /\ map_var_lut[var_name] \in DOMAIN ls

\* SentinelDataset._apply_calibration_lut(var_name)
apply_calibration_lut(ds, ls, var_name) ==
    IF ~HasLut(ls, var_name)
    THEN DsOut("ValueError", None, None)
    ELSE DsOut("ok",
               [k \in DOMAIN ds.digital_number |->
                   CalibratePixel(ds.digital_number[k], ls[map_var_lut[var_name]][k])],
               None)

\* lut.sel(atrack=..., xtrack=..., method='nearest'): the table value at the
\* pixel nearest to coordinate c
Nearest(lut, c) ==
    lut[CHOOSE k \in DOMAIN lut : \A o \in DOMAIN lut : Abs(k - c) <= Abs(o - c)]

\* the table not squared
ReversePixelLinear(v, lut) == NpSqrt(Times(v, Num(FromInt(lut))))

\* reverse_calibration_lut, line 673, at one pixel
ReversePixel(v, lut) == NpSqrt(Times(v, Square(Num(FromInt(lut)))))

\* reverse_calibration_lut, line 675: the warning for a lost complex phase
\* (np.complex is complex128; the reconstructed array is real)
Warns(ds) == ds.dtype = "complex128"

\* SentinelDataset.reverse_calibration_lut(ds_var), ds_var holding the one
\* variable var_name with values da_var on the pixels of the dataset: the
\* name is checked at line 658, the table is read from self._luts at line
\* 662 without _get_lut (a KeyError of the mapping when it is not loaded)
reverse_calibration_lut(ds, ls, var_name, da_var) ==
    IF var_name \notin DOMAIN map_var_lut
    THEN DsOut("ValueError", None, None)
    ELSE IF map_var_lut[var_name] \notin DOMAIN ls
    THEN DsOut("KeyError", None, None)
    ELSE DsOut("ok",
               [k \in DOMAIN da_var |->
                   ReversePixel(da_var[k], Nearest(ls[map_var_lut[var_name]], k))],
               Warns(ds))

DsCall(op, var_name, given, out) ==
    /\ ret' = [op |-> op, kind |-> var_name, to_grid |-> FALSE, approx |-> FALSE,
               arg1 |-> given, arg2 |-> None, status |-> out.status,
               res1 |-> out.res1, res2 |-> out.res2, nExact |-> 0]
    /\ UNCHANGED <<geoloc, approx_transform, constructed, dataset, luts, openVars, maskVars, sliced>>

ApplyCalibrationLut ==
    /\ Idle
    /\ \E var_name \in VarNames :
        DsCall("_apply_calibration_lut", var_name, None,
               apply_calibration_lut(dataset, luts, var_name))

\* the caller hands the variable _apply_calibration_lut computed to
\* reverse_calibration_lut
ReverseCalibrationLut ==
    /\ ret.op = "_apply_calibration_lut" /\ ret.status = "ok"
    /\ DsCall("reverse_calibration_lut", ret.kind, ret.res1,
              reverse_calibration_lut(dataset, luts, ret.kind, ret.res1))

\* var_name[0], varname[0]
FirstLetter(name) ==
    CASE name \in {"sigma0", "sigma0_raw"} -> "s"
      [] name \in {"gamma0", "gamma0_raw"} -> "g"
      [] name \in {"beta0", "beta0_raw"} -> "b"

\* one name for the noise-equivalent variable of every physical variable
NoiseNameShared(name) == "nesz"

\* 'ne%sz' % var_name[0]
NoiseName(name) == "ne" \o FirstLetter(name) \o "z"

NoiseOut(status, name, r) == [status |-> status, name |-> name, res1 |-> r]

\* the noise table divided by the table, not by its square
NoisePixelLinear(noise_lut, lut) == Divide(Num(FromInt(noise_lut)), Num(FromInt(lut)))

\* _get_noise, line 703, at one pixel
NoisePixel(noise_lut, lut) == Divide(Num(FromInt(noise_lut)), Square(Num(FromInt(lut))))

\* SentinelDataset._get_noise(var_name): self._luts['noise_lut'] is read
\* first (line 701), then _get_lut(var_name)
get_noise(ls, var_name) ==
    IF "noise_lut" \notin DOMAIN ls
    THEN NoiseOut("KeyError", None, None)
    ELSE IF ~HasLut(ls, var_name)
    THEN NoiseOut("ValueError", None, None)
    ELSE NoiseOut("ok", NoiseName(var_name),
                  [k \in DOMAIN ls["noise_lut"] |->
                      NoisePixel(ls["noise_lut"][k], ls[map_var_lut[var_name]][k])])

\* a caller runs _get_noise(var_name)
GetNoiseCall ==
    /\ Idle
    /\ \E var_name \in VarNames :
        DsCall("_get_noise", var_name, None,
               DsOut(get_noise(luts, var_name).status, get_noise(luts, var_name).res1, None))

\* a caller hands reverse_calibration_lut a dataset of its own with the one
\* variable var_name, v at every pixel
ReverseCalibrationLutGiven ==
    /\ Idle
    /\ \E var_name \in VarNames, v \in 0..1 :
        DsCall("reverse_calibration_lut(ds_var)", var_name, [k \in Pixels |-> Num(FromInt(v))],
               reverse_calibration_lut(dataset, luts, var_name, [k \in Pixels |-> Num(FromInt(v))]))

\* np.percentile(np.diff(coords), 90) of evenly spaced coordinates
Percentile90Diff(coords) == coords[2] - coords[1]

\* SentinelDataset.ll2coords, line 296
Tolerance(ds) ==
    RAdd(IF Percentile90Diff(ds.atrack) >= Percentile90Diff(ds.xtrack)
         THEN Rat(Percentile90Diff(ds.atrack), 2)
         ELSE Rat(Percentile90Diff(ds.xtrack), 2),
         FromInt(1))

Distance(c, x) == RAbs(RSub(FromInt(c), x))

\* Index.get_indexer(method='nearest'): the nearest coordinate, the larger
\* one of two that are equally near
NearestCoord(coords, x) ==
    CHOOSE c \in {coords[i] : i \in DOMAIN coords} :
        \A o \in {coords[i] : i \in DOMAIN coords} :
            \/ RLt(Distance(c, x), Distance(o, x))
            \/ (Distance(c, x) = Distance(o, x) /\ c >= o)

\* Index.get_indexer(tolerance=...): no index when the nearest is farther
Found(coords, x, tolerance) == RLe(Distance(NearestCoord(coords, x), x), tolerance)

\* Dataset.sel(atrack=..., xtrack=..., method='nearest', tolerance=...)
\* raises KeyError when one value of one array is not found
AllFound(ds, atrack, xtrack) ==
    /\ \A k \in DOMAIN atrack : Found(ds.atrack, atrack[k], Tolerance(ds))
    /\ \A k \in DOMAIN xtrack : Found(ds.xtrack, xtrack[k], Tolerance(ds))

\* SentinelDataset.ll2coords, lines 296-308, on the (atrack, xtrack) arrays
\* self.s1meta.ll2coords returned
ll2coords_nearest(ds, atrack, xtrack) ==
    IF AllFound(ds, atrack, xtrack)
    THEN DsOut("ok",
               [k \in DOMAIN atrack |-> Num(FromInt(NearestCoord(ds.atrack, atrack[k])))],
               [k \in DOMAIN xtrack |-> Num(FromInt(NearestCoord(ds.xtrack, xtrack[k])))])
    ELSE DsOut("ok", [k \in DOMAIN atrack |-> NaN], [k \in DOMAIN xtrack |-> NaN])

\* positions the mapper's ll2coords may return for a (lon, lat): inside the
\* image, within the tolerance of its border, and beyond it
MetaCoords ==
    { <<Rat(1, 2), FromInt(1)>>, <<FromInt(-1), Rat(-5, 4)>>,
      <<FromInt(-2), FromInt(0)>>, <<FromInt(0), FromInt(NumPix + 2)>> }

\* SentinelDataset.ll2coords(lon, lat) on arrays of one to two points
Ll2coordsDataset ==
    /\ Idle
    /\ \E n \in 1..2 : \E ps \in [1..n -> MetaCoords] :
        DsCall("SentinelDataset.ll2coords", "array",
               <<[k \in 1..n |-> ps[k][1]], [k \in 1..n |-> ps[k][2]]>>,
               ll2coords_nearest(dataset, [k \in 1..n |-> ps[k][1]], [k \in 1..n |-> ps[k][2]]))

\* digital numbers of a detected product (uint16) and of a complex one
DnValues(dtype) ==
    IF dtype = "uint16"
    THEN {<<r, 0>> : r \in 0..MaxDn}
    ELSE {<<0, 0>>, <<1, 1>>, <<-1, 0>>, <<0, MaxDn>>}

Dtypes == {"uint16", "complex64", "complex128"}

\* a calibration lookup table over the pixels
LutProfile(base, slope) == [k \in Pixels |-> base + slope * (k - 1)]

LutsOf(names, base, slope) ==
    [n \in names |-> IF n = "sigma0_lut" THEN LutProfile(base, slope)
                     ELSE LutProfile(base + 1, slope)]

FirstGrid == GridOf(CHOOSE p \in GridParams : p.lon0 = 10 /\ p.dl = 0 /\ p.bend = 0 /\ p.ep = 0)

\* SentinelDataset.__init__ after the lookup tables are loaded (line 176)
InitDataset ==
    /\ geoloc = FirstGrid
    /\ approx_transform = from_gcps(geoloc)
    /\ constructed = [geoloc |-> geoloc, cross_antemeridian |-> cross_antemeridian(geoloc)]
    /\ ret = NoRet
    /\ \E dtype \in Dtypes : \E dn \in [Pixels -> DnValues(dtype)] :
        dataset = [dtype |-> dtype, digital_number |-> dn,
                   atrack |-> [k \in Pixels |-> k - 1], xtrack |-> [k \in Pixels |-> k - 1]]
    /\ \E names \in SUBSET {"sigma0_lut", "gamma0_lut", "noise_lut"}, base \in 0..MaxLut, slope \in {0, 1} :
        luts = LutsOf(names, base, slope)
    /\ pc = NoDataset
    /\ s1meta = NoDataset
    /\ args = NoDataset
    /\ heap = NoDataset
    /\ instances = NoDataset
    /\ sliced = FALSE

NextDataset ==
    \/ ApplyCalibrationLut
    \/ ReverseCalibrationLut
    \/ ReverseCalibrationLutGiven
    \/ GetNoiseCall
    \/ Ll2coordsDataset
    \/ Return

SpecDataset == InitDataset /\ [][NextDataset]_vars

\* C9: _apply_calibration_lut gives |dn|^2 / lut^2; a pixel whose digital
\* number is 0 is not-a-number; a pixel with a non-zero digital number and a
\* non-zero table value is strictly positive
C9_ZeroFill ==
    (ret.op = "_apply_calibration_lut" /\ ret.status = "ok") =>
        \A k \in Pixels :
            LET dn == dataset.digital_number[k]
                lut == luts[map_var_lut[ret.kind]][k]
            IN  /\ dn = <<0, 0>> => ret.res1[k] = NaN
                /\ (dn # <<0, 0>> /\ lut # 0) =>
                    /\ ret.res1[k] = Num(Rat(dn[1] * dn[1] + dn[2] * dn[2], lut * lut))
                    /\ ret.res1[k].v[1] > 0

\* a calibrated variable with a zero pixel and a non-zero one
C9_Witness ==
    /\ ret.op = "_apply_calibration_lut" /\ ret.status = "ok"
    /\ \E k \in Pixels : dataset.digital_number[k] = <<0, 0>> /\ ret.res1[k] = NaN
    /\ \E k \in Pixels : ret.res1[k].k = "num"

\* C10: reverse_calibration_lut of the calibrated variable gives |dn| at
\* every pixel with a non-zero digital number and a positive table value
C10_InverseLaw ==
    (ret.op = "reverse_calibration_lut" /\ ret.status = "ok") =>
        \A k \in Pixels :
            LET dn == dataset.digital_number[k]
                lut == luts[map_var_lut[ret.kind]][k]
            IN  (dn # <<0, 0>> /\ lut > 0) =>
                    ret.res1[k] = Root(FromInt(dn[1] * dn[1] + dn[2] * dn[2]))

\* a complex digital number 1 + 1j recovered as its magnitude sqrt(2)
C10_Witness ==
    /\ ret.op = "reverse_calibration_lut" /\ ret.status = "ok"
    /\ \E k \in Pixels :
        /\ dataset.digital_number[k] = <<1, 1>>
        /\ luts[map_var_lut[ret.kind]][k] > 1
        /\ ret.res1[k] = Root(FromInt(2))

(***************************************************************************)
(* SentinelDataset.__init__: the pipeline from the loaded lookup tables to *)
(* the dataset handed to the user, and _get_noise, _add_denoised           *)
(***************************************************************************)
MaxNoise == 2   \* largest value of the range noise lookup table

NegInf == [k |-> "ninf", v |-> FromInt(0)]

IsNegative(x) == x.k = "ninf" \/ (x.k = "num" /\ x.v[1] < 0)

\* x - y for x, y >= 0, infinite or not-a-number
Minus(x, y) ==
    CASE x.k = "nan" \/ y.k = "nan" -> NaN
      [] x.k = "inf" -> IF y.k = "inf" THEN NaN ELSE Inf
      [] y.k = "inf" -> NegInf
      [] OTHER -> Num(RSub(x.v, y.v))

\* DataArray.clip(min=0): not-a-number stays
Clip(x) == IF IsNegative(x) THEN Num(FromInt(0)) ELSE x

\* a table of self._luts as a float array
AsFloat(lut) == [k \in DOMAIN lut |-> Num(FromInt(lut[k]))]

\* ds[name] = arr, ds.merge(arr.to_dataset(name))
Assign(dv, name, arr) ==
    [n \in DOMAIN dv \cup {name} |-> IF n = name THEN arr ELSE dv[n]]

\* varname + '_raw'
RawName(varname) == varname \o "_raw"

\* the variables _add_denoised adds when vars is None (line 728)
DenoisedVars == <<"sigma0", "beta0", "gamma0">>

\* all(self.s1meta.denoised.values())
AllDenoised(flags) == \A p \in DOMAIN flags : flags[p]

\* the test for one value in place of the test for several
UniformDenoised(flags) == Cardinality({flags[p] : p \in DOMAIN flags}) = 1

\* len(set(self.s1meta.denoised.values())) != 1
MixedDenoised(flags) == Cardinality({flags[p] : p \in DOMAIN flags}) # 1

\* the subtraction without the clip
DenoisePixelUnclipped(raw, noise, clip) == Minus(raw, noise)

\* _add_denoised, lines 741-743, at one pixel
DenoisePixel(raw, noise, clip) ==
    IF clip THEN Clip(Minus(raw, noise)) ELSE Minus(raw, noise)

Subtracted(dv, varname, clip) ==
    [k \in DOMAIN dv[RawName(varname)] |->
        DenoisePixel(dv[RawName(varname)][k], dv[NoiseName(varname)][k], clip)]

\* the noise subtracted from a product that is already denoised
DenoisedOfSubtracted(dv, varname, flags, clip) == Subtracted(dv, varname, clip)

\* _add_denoised, lines 734-744: the array assigned to ds[varname]
DenoisedOf(dv, varname, flags, clip) ==
    IF AllDenoised(flags) THEN dv[RawName(varname)] ELSE Subtracted(dv, varname, clip)

AddOut(status, dv) == [status |-> status, vars |-> dv]

\* SentinelDataset._add_denoised(ds, clip, vars): the loop of lines 729-744
\* from the i-th name of vars on; ds is changed in place
RECURSIVE add_denoised_from(_, _, _, _, _)
add_denoised_from(dv, flags, clip, names, i) ==
    IF i > Len(names)
    THEN AddOut("ok", dv)
    ELSE IF RawName(names[i]) \notin DOMAIN dv
    THEN add_denoised_from(dv, flags, clip, names, i + 1)
    ELSE IF ~AllDenoised(flags) /\ MixedDenoised(flags)
    THEN AddOut("NotImplementedError", dv)
    ELSE IF ~AllDenoised(flags) /\ NoiseName(names[i]) \notin DOMAIN dv
    THEN AddOut("KeyError", dv)
    ELSE add_denoised_from(
             Assign(dv, names[i], DenoisedOf(dv, names[i], flags, clip)),
             flags, clip, names, i + 1)

\* _add_denoised(ds, clip) with vars left at None
add_denoised(dv, flags, clip) == add_denoised_from(dv, flags, clip, DenoisedVars, 1)

\* self._hidden_vars
HiddenVars == {"sigma0_lut", "gamma0_lut", "noise_lut", "noise_lut_range", "noise_lut_azi"}

\* the items of self._map_var_lut, in the order of the dict
map_var_lut_items == <<"sigma0_raw", "gamma0_raw">>

\* positions of __init__: LUTS_LOADED after line 162, MERGE before line 168,
\* LOOP at line 178 with the i-th item next, NOISE before line 183, READY
\* when __init__ returned; raised with the exception and the line it left
At(at, i) == [at |-> at, i |-> i, error |-> "", line |-> 0]
Raised(i, error, line) == [at |-> "raised", i |-> i, error |-> error, line |-> line]

M(ds, ls, p) == [dataset |-> ds, luts |-> ls, pc |-> p]

\* __init__, lines 164-166
assign_noise_lut(ds, ls) ==
    M(ds,
      IF {"noise_lut_range", "noise_lut_azi"} \subseteq DOMAIN ls
      THEN [n \in DOMAIN ls \cup {"noise_lut"} |->
               IF n = "noise_lut"
               THEN [k \in Pixels |-> ls["noise_lut_range"][k] * ls["noise_lut_azi"][k]]
               ELSE ls[n]]
      ELSE ls,
      At("MERGE", 0))

\* _load_lon_lat: the mapper's coords2ll(atrack, xtrack, to_grid=True) on the
\* line of the image
load_lon_lat(g, t, ll) ==
    [k \in Pixels |-> Num(GridLL(g, t, <<FromInt(0)>>, <<FromInt(k - 1)>>, FALSE)[1][1][ll])]

\* the names merged at lines 170-173
MergedNames(ls, luts_arg) ==
    (DOMAIN ls \ HiddenVars) \cup (IF luts_arg THEN HiddenVars ELSE {})

\* __init__, lines 168-176: self._luts[self._hidden_vars] wants every
\* hidden table
merge_luts(ds, ls, g, t, luts_arg) ==
    IF luts_arg /\ ~(HiddenVars \subseteq DOMAIN ls)
    THEN M(ds, ls, Raised(0, "KeyError", 173))
    ELSE M([ds EXCEPT !.vars =
               [n \in {"longitude", "latitude"} \cup MergedNames(ls, luts_arg) |->
                   CASE n = "longitude" -> load_lon_lat(g, t, 1)
                     [] n = "latitude" -> load_lon_lat(g, t, 2)
                     [] OTHER -> AsFloat(ls[n])]],
           ls, At("LOOP", 1))

\* the noise step left out
AfterCalibrateNext(i) == At("LOOP", i + 1)

\* __init__, line 181 done, line 183 next
AfterCalibrate(i) == At("NOISE", i)

CalibrateWith(ds, ls, i, out) ==
    IF out.status # "ok"
    THEN M(ds, ls, Raised(i, out.status, 181))
    ELSE M([ds EXCEPT !.vars = Assign(ds.vars, map_var_lut_items[i], out.res1)],
           ls, AfterCalibrate(i))

\* __init__, line 181
calibrate(ds, ls, i) ==
    CalibrateWith(ds, ls, i, apply_calibration_lut(ds, ls, map_var_lut_items[i]))

NoiseWith(ds, ls, i, out) ==
    IF out.status # "ok"
    THEN M(ds, ls, Raised(i, out.status, 183))
    ELSE M([ds EXCEPT !.vars = Assign(ds.vars, out.name, out.res1)],
           ls, At("LOOP", i + 1))

\* __init__, line 183
noise(ds, ls, i) == NoiseWith(ds, ls, i, get_noise(ls, map_var_lut_items[i]))

DenoiseWith(ds, ls, out) ==
    IF out.status # "ok"
    THEN M([ds EXCEPT !.vars = out.vars], ls, Raised(0, out.status, 187))
    ELSE M([ds EXCEPT !.vars = out.vars], ls, At("READY", 0))

\* __init__, lines 187-206
denoise(ds, ls, flags) == DenoiseWith(ds, ls, add_denoised(ds.vars, flags, TRUE))

\* __init__, line 179
LutLoaded(ls, lut_name) == lut_name \in DOMAIN ls

\* __init__, lines 178-187 with the i-th item of the loop next
loop(ds, ls, i, flags) ==
    IF i > Len(map_var_lut_items)
    THEN denoise(ds, ls, flags)
    ELSE IF LutLoaded(ls, map_var_lut[map_var_lut_items[i]])
    THEN calibrate(ds, ls, i)
    ELSE M(ds, ls, At("LOOP", i + 1))

\* one step of __init__ from position p
Step(ds, ls, p, g, t, flags, luts_arg) ==
    CASE p.at = "LUTS_LOADED" -> assign_noise_lut(ds, ls)
      [] p.at = "MERGE" -> merge_luts(ds, ls, g, t, luts_arg)
      [] p.at = "LOOP" -> loop(ds, ls, p.i, flags)
      [] p.at = "NOISE" -> noise(ds, ls, p.i)
      [] OTHER -> M(ds, ls, p)

\* __init__ from position p to its return or its exception
RECURSIVE RunFrom(_, _, _, _)
RunFrom(m, g, t, a) ==
    IF m.pc.at \in {"READY", "raised"}
    THEN m
    ELSE RunFrom(Step(m.dataset, m.luts, m.pc, g, t, a.denoised, a.luts), g, t, a)

Took(m) ==
    /\ dataset' = m.dataset
    /\ luts' = m.luts
    /\ pc' = m.pc
    /\ UNCHANGED <<metaVars, ret, s1meta, args, maskVars, sliced>>

AssignNoiseLut ==
    /\ pc.at = "LUTS_LOADED"
    /\ Took(assign_noise_lut(dataset, luts))

MergeLuts ==
    /\ pc.at = "MERGE"
    /\ Took(merge_luts(dataset, luts, geoloc, approx_transform, args.luts))

Calibrate ==
    /\ pc.at = "LOOP" /\ pc.i <= Len(map_var_lut_items)
    /\ LutLoaded(luts, map_var_lut[map_var_lut_items[pc.i]])
    /\ Took(loop(dataset, luts, pc.i, s1meta.denoised))

SkipVariable ==
    /\ pc.at = "LOOP" /\ pc.i <= Len(map_var_lut_items)
    /\ ~LutLoaded(luts, map_var_lut[map_var_lut_items[pc.i]])
    /\ Took(loop(dataset, luts, pc.i, s1meta.denoised))

GetNoise ==
    /\ pc.at = "NOISE"
    /\ Took(noise(dataset, luts, pc.i))

AddDenoised ==
    /\ pc.at = "LOOP" /\ pc.i > Len(map_var_lut_items)
    /\ Took(loop(dataset, luts, pc.i, s1meta.denoised))

\* the caller runs _add_denoised(self.dataset, clip) on the open dataset
AddDenoisedCall ==
    /\ pc.at = "READY" /\ Idle
    /\ \E clip \in BOOLEAN :
        /\ ret' = [op |-> "_add_denoised", kind |-> "", to_grid |-> FALSE,
                   approx |-> FALSE, arg1 |-> clip, arg2 |-> None,
                   status |-> add_denoised(dataset.vars, s1meta.denoised, clip).status,
                   res1 |-> add_denoised(dataset.vars, s1meta.denoised, clip).vars,
                   res2 |-> None, nExact |-> 0]
        /\ dataset' = [dataset EXCEPT
                          !.vars = add_denoised(dataset.vars, s1meta.denoised, clip).vars]
    /\ UNCHANGED <<metaVars, luts, openVars, maskVars, sliced>>

\* polarizations of the product
Pols == {"VV", "VH"}

\* the tables _lazy_load_luts may find
LutNames == {"sigma0_lut", "gamma0_lut", "noise_lut_range", "noise_lut_azi"}

\* the loaded tables: calibration tables from base and slope, the range
\* noise table n everywhere, the azimuth noise table 1, 2, ...
LoadedLuts(names, base, slope, n) ==
    [l \in names \cup {"incidence", "elevation"} |->
        CASE l = "sigma0_lut" -> LutProfile(base, slope)
          [] l = "gamma0_lut" -> LutProfile(base + 1, slope)
          [] l = "noise_lut_range" -> LutProfile(n, 0)
          [] l = "noise_lut_azi" -> LutProfile(1, 1)
          [] OTHER -> LutProfile(30, 1)]

\* digital numbers of a detected product along the line
DnProfile(d) == [k \in Pixels |-> <<(d + k - 1) % (MaxDn + 1), 0>>]

\* SentinelDataset.__init__ after _lazy_load_luts (line 162)
InitOpen ==
    /\ geoloc = FirstGrid
    /\ approx_transform = from_gcps(geoloc)
    /\ constructed = [geoloc |-> geoloc, cross_antemeridian |-> cross_antemeridian(geoloc)]
    /\ ret = NoRet
    /\ \E d \in 0..MaxDn :
        dataset = [dtype |-> "uint16", digital_number |-> DnProfile(d), vars |-> <<>>,
                   atrack |-> [k \in Pixels |-> k - 1], xtrack |-> [k \in Pixels |-> k - 1]]
    /\ \E names \in SUBSET LutNames, base \in 0..MaxLut, slope \in {0, 1}, n \in 0..MaxNoise :
        luts = LoadedLuts(names, base, slope, n)
    /\ pc = At("LUTS_LOADED", 0)
    /\ \E flags \in [Pols -> BOOLEAN] : s1meta = [denoised |-> flags]
    /\ \E b \in BOOLEAN : args = [luts |-> b]
    /\ heap = NoDataset
    /\ instances = NoDataset
    /\ sliced = FALSE

NextOpen ==
    \/ AssignNoiseLut
    \/ MergeLuts
    \/ Calibrate
    \/ SkipVariable
    \/ GetNoise
    \/ AddDenoised
    \/ AddDenoisedCall
    \/ Return

SpecOpen == InitOpen /\ [][NextOpen]_vars

\* the names the specification gives to the variables of a physical variable
PhysicalVars ==
    { [den |-> "sigma0", raw |-> "sigma0_raw", ne |-> "nesz", lut |-> "sigma0_lut"],
      [den |-> "gamma0", raw |-> "gamma0_raw", ne |-> "negz", lut |-> "gamma0_lut"],
      [den |-> "beta0", raw |-> "beta0_raw", ne |-> "nebz", lut |-> "beta0_lut"] }

InDataset(n) == n \in DOMAIN dataset.vars

AddDenoisedReturned == pc.at = "READY" /\ ret.op = "_add_denoised" /\ ret.status = "ok"

NotNegative(x) == x.k # "ninf" /\ (x.k = "num" => x.v[1] >= 0)

\* C11: when no polarization is flagged as denoised, _add_denoised with
\* clip=True gives max(raw - noise_equivalent, 0) at every pixel: exactly 0
\* where raw is below the noise-equivalent value, never a negative value;
\* with clip=False it gives raw - noise_equivalent, negative or not
C11_DenoisingClip ==
    (AddDenoisedReturned /\ \A p \in Pols : ~s1meta.denoised[p]) =>
        \A t \in PhysicalVars : t.raw \in DOMAIN ret.res1 =>
            \A k \in Pixels :
                LET raw == ret.res1[t.raw][k]
                    ne == ret.res1[t.ne][k]
                    den == ret.res1[t.den][k]
                IN  /\ ret.arg1 => NotNegative(den)
                    /\ (ret.arg1 /\ raw.k = "num" /\ ne.k = "inf") => den = Num(FromInt(0))
                    /\ (raw.k = "num" /\ ne.k = "num") =>
                        IF ret.arg1 /\ RLt(raw.v, ne.v)
                        THEN den = Num(FromInt(0))
                        ELSE den = Num(RSub(raw.v, ne.v))

\* clip=True on a pixel whose raw value is below its noise-equivalent value
C11_Witness ==
    /\ AddDenoisedReturned /\ ret.arg1
    /\ \A p \in Pols : ~s1meta.denoised[p]
    /\ "sigma0_raw" \in DOMAIN ret.res1
    /\ \E k \in Pixels :
        /\ ret.res1["sigma0_raw"][k].k = "num" /\ ret.res1["nesz"][k].k = "num"
        /\ RLt(ret.res1["sigma0_raw"][k].v, ret.res1["nesz"][k].v)
        /\ ret.res1["sigma0"][k] = Num(FromInt(0))

\* C12 as stated: with flags that differ between the polarizations the
\* construction of the denoised variables raises NotImplementedError (no
\* dataset is READY, no call of _add_denoised returns) and no denoised
\* variable is in the dataset
C12_MixedAlwaysRaises ==
    s1meta.denoised["VV"] # s1meta.denoised["VH"] =>
        /\ pc.at # "READY"
        /\ \A t \in PhysicalVars : ~InDataset(t.den)

\* C12 amended: with flags that differ between the polarizations,
\* _add_denoised raises NotImplementedError when one of the raw variables is
\* in the dataset, returns the dataset as it is when none is, and in both
\* cases adds no denoised variable
C12_MixedRaisesWhenRaw ==
    s1meta.denoised["VV"] # s1meta.denoised["VH"] =>
        /\ \A t \in PhysicalVars : ~InDataset(t.den)
        /\ pc.at = "READY" => \A t \in PhysicalVars : ~InDataset(t.raw)
        /\ (pc.at = "raised" /\ pc.line = 187) =>
            /\ pc.error = "NotImplementedError"
            /\ \E t \in PhysicalVars : InDataset(t.raw)
        /\ (pc.at = "LOOP" /\ pc.i > Len(map_var_lut_items)) =>
            (\E t \in PhysicalVars : InDataset(t.raw)) =
                (denoise(dataset, luts, s1meta.denoised).pc.at = "raised")
        /\ ret.op = "_add_denoised" => (ret.status = "ok" /\ ret.res1 = dataset.vars)

\* the constructor left by NotImplementedError, a raw variable in the dataset
C12_Witness ==
    /\ s1meta.denoised["VV"] # s1meta.denoised["VH"]
    /\ pc.at = "raised" /\ pc.line = 187 /\ pc.error = "NotImplementedError"
    /\ InDataset("sigma0_raw")

\* C13: when every polarization is flagged as denoised, each denoised
\* variable equals its raw variable at every pixel, after __init__ and after
\* _add_denoised with clip=True or clip=False
C13_AliasWhenDenoised ==
    (pc.at = "READY" /\ \A p \in Pols : s1meta.denoised[p]) =>
        \A t \in PhysicalVars : InDataset(t.raw) =>
            /\ InDataset(t.den)
            /\ dataset.vars[t.den] = dataset.vars[t.raw]

\* _add_denoised(clip=True) returned on a product flagged as denoised, with a
\* pixel where the subtraction would have changed the value
C13_Witness ==
    /\ AddDenoisedReturned /\ ret.arg1
    /\ \A p \in Pols : s1meta.denoised[p]
    /\ InDataset("sigma0_raw") /\ InDataset("nesz")
    /\ \E k \in Pixels :
        /\ dataset.vars["sigma0_raw"][k].k = "num"
        /\ dataset.vars["nesz"][k].k = "num" /\ dataset.vars["nesz"][k].v[1] > 0
        /\ dataset.vars["sigma0"][k] = dataset.vars["sigma0_raw"][k]

\* C14: whatever lookup tables are loaded, opening a dataset (luts=False,
\* flags that do not differ) raises no exception
C14_MissingLutSkipped ==
    (~args.luts /\ s1meta.denoised["VV"] = s1meta.denoised["VH"]) => pc.at # "raised"

\* C15: a raw variable is added after the tables are loaded and merged, from
\* a loaded table; a noise-equivalent variable is added when its raw
\* variable is in the dataset; a denoised variable is added when both are;
\* no dataset holds a denoised variable without its raw variable
C15_DependencyOrder ==
    /\ [](\A t \in PhysicalVars : InDataset(t.den) => InDataset(t.raw))
    /\ [][\A t \in PhysicalVars :
            /\ (~InDataset(t.raw) /\ t.raw \in DOMAIN dataset'.vars) =>
                (pc.at = "LOOP" /\ t.lut \in DOMAIN luts)
            /\ (~InDataset(t.ne) /\ t.ne \in DOMAIN dataset'.vars) => InDataset(t.raw)
            /\ (~InDataset(t.den) /\ t.den \in DOMAIN dataset'.vars) =>
                (InDataset(t.raw) /\ InDataset(t.ne))]_vars

\* a READY dataset with sigma0_raw, nesz and sigma0
C15_Witness ==
    /\ pc.at = "READY"
    /\ InDataset("sigma0_raw") /\ InDataset("nesz") /\ InDataset("sigma0")

\* C18: with the four lookup tables loaded and flags that do not differ, the
\* READY dataset holds digital_number, longitude, latitude, incidence,
\* elevation and, for sigma0, gamma0 and beta0, the raw, the denoised and the
\* noise-equivalent variable
C18_AllVariables ==
    (pc.at = "READY" /\ LutNames \subseteq DOMAIN luts
        /\ s1meta.denoised["VV"] = s1meta.denoised["VH"]) =>
        /\ "digital_number" \in DOMAIN dataset
        /\ \A n \in {"longitude", "latitude", "incidence", "elevation"} : InDataset(n)
        /\ \A t \in PhysicalVars : InDataset(t.raw) /\ InDataset(t.den) /\ InDataset(t.ne)

\* the same product opened with the given luts argument
Reopened(luts_arg) ==
    RunFrom(M([dataset EXCEPT !.vars = <<>>],
              [n \in DOMAIN luts \ {"noise_lut"} |-> luts[n]],
              At("LUTS_LOADED", 0)),
            geoloc, approx_transform,
            [denoised |-> s1meta.denoised, luts |-> luts_arg])

\* the variables of a dataset that are not lookup tables
Derived(dv) == [n \in DOMAIN dv \ HiddenVars |-> dv[n]]

\* C19: when __init__ has returned or raised: with luts=False no lookup
\* table is a variable of the dataset, with luts=True every loaded one is,
\* and the same product opened with the other value of luts ends the same
\* way with the same derived variables
C19_LutsOnRequest ==
    (pc.at \in {"READY", "raised"} /\ Reopened(args.luts).dataset = dataset) =>
        /\ (pc.at = "READY" /\ ~args.luts) => \A h \in HiddenVars : ~InDataset(h)
        /\ (pc.at = "READY" /\ args.luts) => \A h \in HiddenVars \cap DOMAIN luts : InDataset(h)
        /\ Reopened(~args.luts).pc.at = pc.at
        /\ pc.at = "READY" =>
            Derived(Reopened(~args.luts).dataset.vars) = Derived(dataset.vars)

\* the quotient noise / lut^2 of two tables at one pixel
Quotient(n, l) ==
    IF l # 0 THEN Num(Rat(n, l * l)) ELSE IF n = 0 THEN NaN ELSE Inf

\* C20: past line 166, noise_lut is in the tables exactly when
\* noise_lut_range and noise_lut_azi both are, and is their product at each
\* pixel; the variable nesz (negz, nebz) of a dataset is
\* noise_lut / sigma0_lut^2 (gamma0_lut, beta0_lut) at each pixel
C20_NoiseEquivalent ==
    /\ pc.at # "LUTS_LOADED" =>
        /\ ("noise_lut" \in DOMAIN luts) =
               ({"noise_lut_range", "noise_lut_azi"} \subseteq DOMAIN luts)
        /\ "noise_lut" \in DOMAIN luts => \A k \in Pixels :
               luts["noise_lut"][k] = luts["noise_lut_range"][k] * luts["noise_lut_azi"][k]
    /\ \A t \in PhysicalVars : InDataset(t.ne) =>
        /\ {"noise_lut_range", "noise_lut_azi", t.lut} \subseteq DOMAIN luts
        /\ \A k \in Pixels :
            dataset.vars[t.ne][k] =
                Quotient(luts["noise_lut_range"][k] * luts["noise_lut_azi"][k], luts[t.lut][k])

\* nesz and negz in a dataset, from tables larger than 1 and a noise table
\* that is not 0
C20_Witness ==
    /\ InDataset("nesz") /\ InDataset("negz")
    /\ \E k \in Pixels :
        /\ luts["sigma0_lut"][k] > 1 /\ luts["noise_lut"][k] > 1
        /\ dataset.vars["nesz"][k] # dataset.vars["negz"][k]
        /\ dataset.vars["nesz"][k].k = "num"

Ll2coordsDatasetReturned == ret.op = "SentinelDataset.ll2coords"

\* a point within 1.5 pixels of the image on both axes
InWindow(a, x) ==
    /\ RLe(Rat(-3, 2), a) /\ RLe(a, Rat(2 * NumPix + 1, 2))
    /\ RLe(Rat(-3, 2), x) /\ RLe(x, Rat(2 * NumPix + 1, 2))

\* an integer coordinate of the image within half a pixel of x, or the
\* border coordinate when x is beyond the border
IsNearest(c, x) ==
    /\ c.k = "num" /\ c.v[2] = 1 /\ c.v[1] \in 0..(NumPix - 1)
    /\ \A o \in 0..(NumPix - 1) : RLe(RAbs(RSub(c.v, x)), RAbs(RSub(FromInt(o), x)))

\* C16: SentinelDataset.ll2coords on a batch raises nothing; a point outside
\* the tolerance window is not-a-number, a point inside it has its nearest
\* dataset coordinates, whatever the other points of the batch are
C16_BatchBounds ==
    Ll2coordsDatasetReturned =>
        /\ ret.status = "ok"
        /\ \A k \in DOMAIN ret.arg1[1] :
            IF InWindow(ret.arg1[1][k], ret.arg1[2][k])
            THEN IsNearest(ret.res1[k], ret.arg1[1][k]) /\ IsNearest(ret.res2[k], ret.arg1[2][k])
            ELSE ret.res1[k] = NaN /\ ret.res2[k] = NaN

\* C17: _apply_calibration_lut, _get_noise and reverse_calibration_lut for a
\* variable that is not in the mapping, or whose table is not loaded, end in
\* ValueError and return nothing
C17_ConfigurationErrors ==
    (/\ ret.op \in {"_apply_calibration_lut", "_get_noise", "reverse_calibration_lut",
                   "reverse_calibration_lut(ds_var)"}
     /\ (ret.kind \notin {"sigma0_raw", "gamma0_raw"}
         \/ (ret.kind = "sigma0_raw" /\ "sigma0_lut" \notin DOMAIN luts)
         \/ (ret.kind = "gamma0_raw" /\ "gamma0_lut" \notin DOMAIN luts))) =>
        /\ ret.status = "ValueError"
        /\ ret.res1 = None

\* the loop body of __init__ (lines 179-183) for one variable, on the
\* variables dv of the dataset
WithVariable(dv, var_name) ==
    IF ~LutLoaded(luts, map_var_lut[var_name])
    THEN dv
    ELSE Assign(Assign(dv, var_name, apply_calibration_lut(dataset, luts, var_name).res1),
                get_noise(luts, var_name).name, get_noise(luts, var_name).res1)

\* the variables of the dataset as lines 170-176 left them
MergedVars == [n \in DOMAIN dataset.vars \ {"sigma0_raw", "gamma0_raw", "nesz", "negz",
                                            "sigma0", "gamma0"} |-> dataset.vars[n]]

\* gamma0 calibrated, noise-derived and denoised before sigma0
GammaFirst ==
    add_denoised_from(WithVariable(WithVariable(MergedVars, "gamma0_raw"), "sigma0_raw"),
                      s1meta.denoised, TRUE, <<"gamma0", "beta0", "sigma0">>, 1).vars

\* C21: the dataset __init__ returns is the one obtained with gamma0
\* calibrated, noise-derived and denoised before sigma0; no step changes
\* digital_number or a variable other than the denoised one it computes
C21_OrderIndependent ==
    /\ []((pc.at = "READY" /\ Reopened(args.luts).dataset = dataset) =>
            dataset.vars = GammaFirst)
    /\ [][/\ dataset'.digital_number = dataset.digital_number
          /\ \A n \in DOMAIN dataset.vars :
                /\ n \in DOMAIN dataset'.vars
                /\ dataset'.vars[n] # dataset.vars[n] =>
                    (n \in {"sigma0", "gamma0"} /\ ret'.op = "_add_denoised")]_vars

\* a READY dataset with sigma0 and gamma0 that differ
C21_Witness ==
    /\ pc.at = "READY" /\ Reopened(args.luts).dataset = dataset
    /\ InDataset("sigma0") /\ InDataset("gamma0") /\ InDataset("nesz") /\ InDataset("negz")
    /\ dataset.vars["sigma0"] # dataset.vars["gamma0"]
    /\ dataset.vars["nesz"] # dataset.vars["negz"]

(***************************************************************************)
(* The antimeridian test on grids that spread over about half a turn       *)
(***************************************************************************)
\* ground-control grids of a product 178 to 183 degrees wide
WideGridParams ==
    [lon0 : -92..-88, dl : {0, 1}, dp : 178..182, bend : {0},
     lat0 : {40}, el : {-2}, ep : {0}]

\* RadarSat2Meta.__init__ on a product carrying one of the grids
InitFlag ==
    /\ \E p \in GridParams \cup WideGridParams : geoloc = GridOf(p)
    /\ approx_transform = from_gcps(geoloc)
    /\ constructed = [geoloc |-> geoloc, cross_antemeridian |-> cross_antemeridian(geoloc)]
    /\ ret = NoRet
    /\ dataset = NoDataset
    /\ luts = NoDataset
    /\ pc = NoDataset
    /\ s1meta = NoDataset
    /\ args = NoDataset
    /\ heap = NoDataset
    /\ instances = NoDataset
    /\ sliced = FALSE

NextFlag ==
    \/ GetCrossAntemeridian
    \/ GetDictCoords2ll
    \/ Return

SpecFlag == InitFlag /\ [][NextFlag]_vars

GridPoints == (1..NumLines) \X (1..NumPixels)

\* C23: cross_antemeridian is true exactly when two longitudes of the grid
\* are more than 180 apart (false when the widest pair is exactly 180 apart)
C23_StrictSpread ==
    ret.op = "cross_antemeridian" =>
        ret.res1[1] = (\E a, b \in GridPoints :
                          geoloc.longitude[a[1]][a[2]] - geoloc.longitude[b[1]][b[2]] > 180)

\* the test returned false on a grid whose widest pair is exactly 180 apart
C23_Witness ==
    /\ ret.op = "cross_antemeridian" /\ ret.res1[1] = FALSE
    /\ \E a, b \in GridPoints :
        geoloc.longitude[a[1]][a[2]] - geoloc.longitude[b[1]][b[2]] = 180
    /\ \A a, b \in GridPoints :
        geoloc.longitude[a[1]][a[2]] - geoloc.longitude[b[1]][b[2]] <= 180

\* C24: the pair of spline surfaces is built at most once on an instance,
\* so no call, however many exact transforms it makes, builds it twice
C24_BuiltAtMostOnce == ret.nExact <= 1

(***************************************************************************)
(* RadarSat2Meta mask feature tables: the class attribute                  *)
(* _mask_features_raw and the four dicts of each instance.  A dict is an   *)
(* object of the heap; an instance holds the addresses of its dicts.       *)
(***************************************************************************)
MaxInstances == 2   \* instances alive at a time

MaskNames == {"land", "ocean"}
Features == {"NaturalEarth land 10m", "ocean.shp"}
ProductNames == {"RADARSAT2_DS:a:", "RADARSAT2_DS:b:"}

\* address of the class attribute RadarSat2Meta._mask_features_raw
ClassDict == 1

\* the value None of a cache entry
NoGeometry == "None"

\* address of the k-th dict allocated on heap h
Fresh(h, k) == Len(h) + k

\* set_mask_feature on an instance (lines 500-506)
set_mask_feature(h, inst, name, feature) ==
    [h EXCEPT ![inst.raw] = Assign(@, name, feature),
              ![inst.intersecting] = Assign(@, name, NoGeometry),
              ![inst.geometry] = Assign(@, name, NoGeometry),
              ![inst.features] = Assign(@, name, NoGeometry)]

\* set_mask_feature on the class (line 500)
set_mask_feature_cls(h, name, feature) ==
    [h EXCEPT ![ClassDict] = Assign(@, name, feature)]

\* __init__, lines 104-105: set_mask_feature for every item of the class dict
RECURSIVE SetDefaults(_, _, _)
SetDefaults(h, inst, names) ==
    IF names = {}
    THEN h
    ELSE SetDefaults(set_mask_feature(h, inst, CHOOSE n \in names : TRUE,
                                      h[ClassDict][CHOOSE n \in names : TRUE]),
                     inst, names \ {CHOOSE n \in names : TRUE})

Instance(h, name) ==
    [name |-> name, raw |-> Fresh(h, 1), features |-> Fresh(h, 2),
     intersecting |-> Fresh(h, 3), geometry |-> Fresh(h, 4)]

\* __init__, lines 98-105: four new dicts, then the defaults of the class
construct(h, name) ==
    SetDefaults(h \o <<<<>>, <<>>, <<>>, <<>>>>, Instance(h, name), DOMAIN h[ClassDict])

\* a dict with None for every name
NoneFor(names) == [n \in names |-> NoGeometry]

\* the property dict (lines 164-176): the instance's own _mask_features_raw
\* and three new dicts
minidict(h, inst) ==
    [name |-> inst.name, raw |-> inst.raw, features |-> Fresh(h, 1),
     intersecting |-> Fresh(h, 2), geometry |-> Fresh(h, 3)]

minidict_heap(h, inst) ==
    h \o <<NoneFor(DOMAIN h[inst.raw]), NoneFor(DOMAIN h[inst.raw]),
           NoneFor(DOMAIN h[inst.raw])>>

\* from_dict(m.dict), lines 182-188: copy.copy(minidict) is a shallow copy
\* and new.__dict__.update(minidict) hands the new instance the dicts of
\* minidict (the dicts cls(name) built are dropped)
from_dict(h, inst) ==
    [heap |-> minidict_heap(h, inst), inst |-> minidict(h, inst)]

MaskRet(op, kind, a1, a2) ==
    [op |-> op, kind |-> kind, to_grid |-> FALSE, approx |-> FALSE,
     arg1 |-> a1, arg2 |-> a2, status |-> "ok", res1 |-> None, res2 |-> None,
     nExact |-> 0]

MaskFrame == UNCHANGED <<metaVars, dsVars, openVars, sliced>>

\* RadarSat2Meta(name)
NewInstance ==
    /\ Idle /\ Len(instances) < MaxInstances
    /\ \E name \in ProductNames :
        /\ heap' = construct(heap, name)
        /\ instances' = Append(instances, Instance(heap, name))
        /\ ret' = MaskRet("__init__", "instance", Len(instances) + 1, name)
    /\ MaskFrame

\* RadarSat2Meta.from_dict(m.dict) for the i-th instance m
FromDict ==
    /\ Idle /\ Len(instances) < MaxInstances
    /\ \E i \in DOMAIN instances :
        /\ heap' = from_dict(heap, instances[i]).heap
        /\ instances' = Append(instances, from_dict(heap, instances[i]).inst)
        /\ ret' = MaskRet("from_dict", "instance", Len(instances) + 1, i)
    /\ MaskFrame

\* m.set_mask_feature(name, feature) on the i-th instance
SetMaskFeature ==
    /\ Idle
    /\ \E i \in DOMAIN instances, name \in MaskNames, feature \in Features :
        /\ heap' = set_mask_feature(heap, instances[i], name, feature)
        /\ ret' = MaskRet("set_mask_feature", "instance", i, name)
    /\ UNCHANGED instances
    /\ MaskFrame

\* RadarSat2Meta.set_mask_feature(name, feature)
SetMaskFeatureClass ==
    /\ Idle
    /\ \E name \in MaskNames, feature \in Features :
        /\ heap' = set_mask_feature_cls(heap, name, feature)
        /\ ret' = MaskRet("set_mask_feature", "class", 0, name)
    /\ UNCHANGED instances
    /\ MaskFrame

ReturnMask ==
    /\ ~Idle
    /\ ret' = NoRet
    /\ UNCHANGED <<heap, instances>>
    /\ MaskFrame

\* the module is imported: the class attribute holds the land feature
InitMask ==
    /\ geoloc = FirstGrid
    /\ approx_transform = from_gcps(geoloc)
    /\ constructed = [geoloc |-> geoloc, cross_antemeridian |-> cross_antemeridian(geoloc)]
    /\ ret = NoRet
    /\ dataset = NoDataset
    /\ luts = NoDataset
    /\ pc = NoDataset
    /\ s1meta = NoDataset
    /\ args = NoDataset
    /\ heap = <<[n \in {"land"} |-> "NaturalEarth land 10m"]>>
    /\ instances = <<>>
    /\ sliced = FALSE

NextMask ==
    \/ NewInstance
    \/ FromDict
    \/ SetMaskFeature
    \/ SetMaskFeatureClass
    \/ ReturnMask

SpecMask == InitMask /\ [][NextMask]_vars

\* the four mask tables of an instance on heap h
Tables(h, inst) ==
    [raw |-> h[inst.raw], features |-> h[inst.features],
     intersecting |-> h[inst.intersecting], geometry |-> h[inst.geometry]]

\* C22: set_mask_feature on an instance sets the feature and resets the
\* caches of that name on that instance and leaves the class defaults and
\* the tables of every other instance as they were; set_mask_feature on the
\* class leaves the tables of every instance as they were; a new instance
\* has the defaults of the class at the time it is constructed
C22_MaskTablesPerInstance ==
    [][/\ (ret'.op = "set_mask_feature" /\ ret'.kind = "instance") =>
            /\ heap'[ClassDict] = heap[ClassDict]
            /\ \A j \in DOMAIN instances \ {ret'.arg1} :
                Tables(heap', instances[j]) = Tables(heap, instances[j])
            /\ heap'[instances[ret'.arg1].geometry][ret'.arg2] = NoGeometry
            /\ ret'.arg2 \in DOMAIN heap'[instances[ret'.arg1].raw]
       /\ (ret'.op = "set_mask_feature" /\ ret'.kind = "class") =>
            \A j \in DOMAIN instances :
                Tables(heap', instances[j]) = Tables(heap, instances[j])
       /\ ret'.op = "__init__" =>
            heap'[instances'[ret'.arg1].raw] = heap[ClassDict]]_vars

AddressesOf(inst) == {inst.raw, inst.features, inst.intersecting, inst.geometry}

\* C25: no two instances hold the same dict; the instance from_dict(m.dict)
\* returns has the name and the mask feature names of m and None for every
\* cached geometry
C25_FromDictSharesNothing ==
    /\ \A i, j \in DOMAIN instances :
        i # j => AddressesOf(instances[i]) \cap AddressesOf(instances[j]) = {}
    /\ ret.op = "from_dict" =>
        /\ instances[ret.arg1].name = instances[ret.arg2].name
        /\ DOMAIN heap[instances[ret.arg1].raw] = DOMAIN heap[instances[ret.arg2].raw]
        /\ \A n \in DOMAIN heap[instances[ret.arg1].raw] :
            /\ heap[instances[ret.arg1].geometry][n] = NoGeometry
            /\ heap[instances[ret.arg1].features][n] = NoGeometry
            /\ heap[instances[ret.arg1].intersecting][n] = NoGeometry

(***************************************************************************)
(* The warning of reverse_calibration_lut                                  *)
(***************************************************************************)
ComplexDtypes == {"complex64", "complex128"}

\* C27: when the stored digital_number is complex and reverse_calibration_lut
\* returns, the loss of the phase was warned about and the result is
\* sqrt(var * lut^2) on every pixel
C27_PhaseLossWarned ==
    (/\ ret.op = "reverse_calibration_lut" /\ ret.status = "ok"
     /\ dataset.dtype \in ComplexDtypes) =>
        /\ ret.res2 = TRUE
        /\ \A k \in Pixels :
            ret.res1[k] = ReversePixel(ret.arg1[k], luts[map_var_lut[ret.kind]][k])

(***************************************************************************)
(* The property SentinelDataset.dataset and its setter.  The dataset is    *)
(* its attributes and its atrack, xtrack and pol coordinates.              *)
(***************************************************************************)
MetaNames == {"S1A_IW_GRDH", "S1B_IW_GRDH"}

\* _bbox_coords, lines 233-244: the corners (0, 0), (0, -1), (-1, -1),
\* (-1, 0) moved outwards by half a pixel
BboxCoords(ds) ==
    <<<<RSub(FromInt(ds.atrack[1]), Rat(Percentile90Diff(ds.atrack), 2)),
        RSub(FromInt(ds.xtrack[1]), Rat(Percentile90Diff(ds.xtrack), 2))>>,
      <<RSub(FromInt(ds.atrack[1]), Rat(Percentile90Diff(ds.atrack), 2)),
        RAdd(FromInt(ds.xtrack[Len(ds.xtrack)]), Rat(Percentile90Diff(ds.xtrack), 2))>>,
      <<RAdd(FromInt(ds.atrack[Len(ds.atrack)]), Rat(Percentile90Diff(ds.atrack), 2)),
        RAdd(FromInt(ds.xtrack[Len(ds.xtrack)]), Rat(Percentile90Diff(ds.xtrack), 2))>>,
      <<RAdd(FromInt(ds.atrack[Len(ds.atrack)]), Rat(Percentile90Diff(ds.atrack), 2)),
        RSub(FromInt(ds.xtrack[1]), Rat(Percentile90Diff(ds.xtrack), 2))>>>>

\* _recompute_attrs, lines 347-352: the attributes of the dataset with the
\* footprint of its bounding box (the lengths in metres, which come from
\* the bounding box too, are left out)
recompute_attrs(ds) == Assign(ds.attrs, "footprint", BboxCoords(ds))

\* line 221-222: any coordinate of atrack, xtrack, pol differs
CoordsDiffer(ds, current) ==
    \/ ds.atrack # current.atrack
    \/ ds.xtrack # current.xtrack
    \/ ds.pol # current.pol

SetOut(status, ds, flag) == [status |-> status, dataset |-> ds, sliced |-> flag]

\* the setter of SentinelDataset.dataset, lines 216-226
set_dataset(meta, current, flag, ds) ==
    IF "name" \notin DOMAIN ds.attrs
    THEN SetOut("KeyError", current, flag)
    ELSE IF meta.name = ds.attrs["name"]
    THEN SetOut("ok", [ds EXCEPT !.attrs = recompute_attrs(ds)],
                IF ~flag THEN CoordsDiffer(ds, current) ELSE flag)
    ELSE SetOut("ValueError", current, flag)

\* the attributes a dataset computed from the original may carry
AttrsOf(names) == {<<>>} \cup {[a \in {"name"} |-> n] : n \in names}

NewDatasets ==
    [attrs : AttrsOf(MetaNames),
     atrack : {<<0, 1, 2>>, <<0, 1>>, <<1, 2>>},
     xtrack : {<<0, 1, 2>>, <<0, 1>>},
     pol : {<<"VV", "VH">>, <<"VV">>}]

\* the dataset of a product as it is opened
Opened(name) ==
    [attrs |-> [a \in {"name"} |-> name], atrack |-> <<0, 1, 2>>,
     xtrack |-> <<0, 1, 2>>, pol |-> <<"VV", "VH">>]

SetterFrame == UNCHANGED <<metaVars, luts, pc, s1meta, args, maskVars>>

\* sar.dataset = ds
SetDataset ==
    /\ Idle
    /\ \E ds \in NewDatasets :
        /\ dataset' = set_dataset(s1meta, dataset, sliced, ds).dataset
        /\ sliced' = set_dataset(s1meta, dataset, sliced, ds).sliced
        /\ ret' = [MaskRet("dataset.setter", "", ds, None)
                     EXCEPT !.status = set_dataset(s1meta, dataset, sliced, ds).status]
    /\ SetterFrame

ReturnSetter ==
    /\ ~Idle
    /\ ret' = NoRet
    /\ UNCHANGED <<dataset, sliced>>
    /\ SetterFrame

\* SentinelDataset.__init__, lines 187 and 199: the attributes are
\* recomputed and sliced is False
InitSetter ==
    /\ geoloc = FirstGrid
    /\ approx_transform = from_gcps(geoloc)
    /\ constructed = [geoloc |-> geoloc, cross_antemeridian |-> cross_antemeridian(geoloc)]
    /\ ret = NoRet
    /\ \E name \in MetaNames :
        /\ s1meta = [name |-> name]
        /\ dataset = [Opened(name) EXCEPT !.attrs = recompute_attrs(Opened(name))]
    /\ luts = NoDataset
    /\ pc = NoDataset
    /\ args = NoDataset
    /\ heap = NoDataset
    /\ instances = NoDataset
    /\ sliced = FALSE

NextSetter == SetDataset \/ ReturnSetter

SpecSetter == InitSetter /\ [][NextSetter]_vars

\* the dataset handed to the setter carries the name of the metadata
SameKind(ds) == "name" \in DOMAIN ds.attrs /\ ds.attrs["name"] = s1meta.name

\* C26: an assignment of a dataset of the same kind stores it and sets
\* sliced when a coordinate differs; any other assignment raises ValueError
\* and leaves the stored dataset and sliced as they were; sliced never
\* returns to False
C26_SetterContract ==
    [][/\ ret'.op = "dataset.setter" =>
            IF SameKind(ret'.arg1)
            THEN /\ ret'.status = "ok"
                 /\ dataset'.atrack = ret'.arg1.atrack
                 /\ dataset'.xtrack = ret'.arg1.xtrack
                 /\ dataset'.pol = ret'.arg1.pol
                 /\ sliced' = (sliced \/ CoordsDiffer(ret'.arg1, dataset))
            ELSE /\ ret'.status = "ValueError"
                 /\ dataset' = dataset
                 /\ sliced' = sliced
       /\ sliced => sliced']_vars
====
